---- MODULE Spec2Model ----
(***************************************************************************)
(* Employee directory service (src/main.py): the list/search handler, the  *)
(* seed handler and the /test diagnostic, over a document store.           *)
(*                                                                         *)
(* Strings are sequences of characters (a character is a one-character     *)
(* string; a non-ASCII character is written "uXXXX"), so that splitting,   *)
(* trimming, case folding and pattern matching are computed.  An optional  *)
(* value (Python's Optional) is None or Some(v).  A document is a function *)
(* from field names to values; a missing field is missing from its domain. *)
(***************************************************************************)
EXTENDS Integers, Sequences, FiniteSets, TLC

(* ------------------------------ bounds --------------------------------- *)

\* Seed calls in one behaviour.
MaxSeeds == 2

\* Insertions the store refuses in one behaviour.
MaxRefused == 3

\* Length of the enumerated tags parameter strings.
MaxTagsLen == 3

(* ------------------------- program constants --------------------------- *)

\* limit: int = Query(default=200, le=500)
DefaultLimit == 200

LimitCeiling == 500

\* db.list_collection_names()[:10]
CollectionsShown == 10

HTTP_OK == 200

\* FastAPI's answer to a query parameter that fails its declared validation.
HTTP_UNPROCESSABLE == 422

\* raise HTTPException(status_code=500, ...)
HTTP_SERVER_ERROR == 500

(* ------------------------------ values --------------------------------- *)

None == <<>>

Some(v) == <<v>>

Val(o) == o[1]

\* Python truthiness of an Optional[str]: neither None nor "".
Truthy(o) == o # None /\ Val(o) # <<>>

EmptyDict == <<>>

Has(d, k) == k \in DOMAIN d

\* Python's dict without key k (d.pop(k, None)).
Without(d, k) == [x \in DOMAIN d \ {k} |-> d[x]]

\* Python's d[k] = v.
With(d, k, v) == [x \in DOMAIN d \cup {k} |-> IF x = k THEN v ELSE d[x]]

Range(s) == {s[i] : i \in 1..Len(s)}

Take(s, n) == SubSeq(s, 1, IF n < Len(s) THEN n ELSE Len(s))

\* str(): the string form of a store-assigned identifier, here its decimal
\* numeral; str(None) is "None".
Digit(n) == <<"0", "1", "2", "3", "4", "5", "6", "7", "8", "9">>[n + 1]

RECURSIVE Numeral(_)
Numeral(n) == IF n < 10 THEN <<Digit(n)>> ELSE Numeral(n \div 10) \o <<Digit(n % 10)>>

StrNone == <<"N", "o", "n", "e">>

(* --------------------------- the sample set ---------------------------- *)

Sample1 ==
  [
     firstName |-> <<"u0623", "u0645", "u064A", "u0646">>,
     lastName |-> <<"u0628", "u0646", " ", "u0635", "u0627", "u0644", "u062D">>,
     full_name |-> <<"u0623", "u0645", "u064A", "u0646", " ", "u0628", "u0646", " ", "u0635", "u0627", "u0644", "u062D">>,
     title |-> <<"u0645", "u0647", "u0646", "u062F", "u0633", " ", "u0646", "u0638", "u0645">>,
     department |-> <<"I", "T">>,
     email |-> <<"a", "m", "i", "n", "e", ".", "b", "e", "n", "s", "a", "l", "e", "h", "@", "e", "x", "a", "m", "p", "l", "e", ".", "c", "o", "m">>,
     phone |-> <<"+", "2", "1", "3", "5", "6", "0", "0", "0", "0", "0", "0", "1">>,
     office |-> <<"D", "3", "-", "2", "0", "1">>,
     location |-> <<"B", "a", "b", " ", "E", "z", "z", "o", "u", "a", "r">>,
     photoUrl |-> <<"h", "t", "t", "p", "s", ":", "/", "/", "i", ".", "p", "r", "a", "v", "a", "t", "a", "r", ".", "c", "c", "/", "1", "5", "0", "?", "i", "m", "g", "=", "1">>,
     bio |-> <<"u062E", "u0628", "u064A", "u0631", " ", "u0641", "u064A", " ", "u0627", "u0644", "u0628", "u0646", "u064A", "u0629", " ", "u0627", "u0644", "u062A", "u062D", "u062A", "u064A", "u0629", " ", "u0648", "u0627", "u0644", "u0634", "u0628", "u0643", "u0627", "u062A", ".">>,
     tags |-> <<<<"L", "i", "n", "u", "x">>, <<"N", "e", "t", "w", "o", "r", "k", "i", "n", "g">>, <<"D", "e", "v", "O", "p", "s">>>>,
     isActive |-> TRUE
  ]

Sample2 ==
  [
     firstName |-> <<"u0644", "u064A", "u0644", "u0649">>,
     lastName |-> <<"u0642", "u0627", "u0633", "u0645">>,
     full_name |-> <<"u0644", "u064A", "u0644", "u0649", " ", "u0642", "u0627", "u0633", "u0645">>,
     title |-> <<"u0645", "u0648", "u0627", "u0631", "u062F", " ", "u0628", "u0634", "u0631", "u064A", "u0629">>,
     department |-> <<"H", "R">>,
     email |-> <<"l", "e", "i", "l", "a", ".", "k", "a", "c", "e", "m", "@", "e", "x", "a", "m", "p", "l", "e", ".", "c", "o", "m">>,
     phone |-> <<"+", "2", "1", "3", "5", "6", "0", "0", "0", "0", "0", "0", "2">>,
     office |-> <<"D", "3", "-", "1", "0", "5">>,
     location |-> <<"B", "a", "b", " ", "E", "z", "z", "o", "u", "a", "r">>,
     photoUrl |-> <<"h", "t", "t", "p", "s", ":", "/", "/", "i", ".", "p", "r", "a", "v", "a", "t", "a", "r", ".", "c", "c", "/", "1", "5", "0", "?", "i", "m", "g", "=", "5">>,
     bio |-> <<"u062A", "u0637", "u0648", "u064A", "u0631", " ", "u0627", "u0644", "u0645", "u0648", "u0627", "u0647", "u0628", " ", "u0648", "u062B", "u0642", "u0627", "u0641", "u0629", " ", "u0627", "u0644", "u0645", "u0624", "u0633", "u0633", "u0629", ".">>,
     tags |-> <<<<"R", "e", "c", "r", "u", "i", "t", "m", "e", "n", "t">>, <<"C", "u", "l", "t", "u", "r", "e">>>>,
     isActive |-> TRUE
  ]

Sample3 ==
  [
     firstName |-> <<"u0645", "u0631", "u0648", "u0627", "u0646">>,
     lastName |-> <<"u0634", "u0631", "u0642", "u064A">>,
     full_name |-> <<"u0645", "u0631", "u0648", "u0627", "u0646", " ", "u0634", "u0631", "u0642", "u064A">>,
     title |-> <<"u0645", "u062D", "u0627", "u0633", "u0628">>,
     department |-> <<"F", "i", "n", "a", "n", "c", "e">>,
     email |-> <<"m", "a", "r", "o", "u", "a", "n", "e", ".", "c", "h", "e", "r", "k", "i", "@", "e", "x", "a", "m", "p", "l", "e", ".", "c", "o", "m">>,
     phone |-> <<"+", "2", "1", "3", "5", "6", "0", "0", "0", "0", "0", "0", "3">>,
     office |-> <<"D", "3", "-", "0", "0", "9">>,
     location |-> <<"B", "a", "b", " ", "E", "z", "z", "o", "u", "a", "r">>,
     photoUrl |-> <<"h", "t", "t", "p", "s", ":", "/", "/", "i", ".", "p", "r", "a", "v", "a", "t", "a", "r", ".", "c", "c", "/", "1", "5", "0", "?", "i", "m", "g", "=", "8">>,
     bio |-> <<"u0625", "u062F", "u0627", "u0631", "u0629", " ", "u0627", "u0644", "u0645", "u064A", "u0632", "u0627", "u0646", "u064A", "u0627", "u062A", " ", "u0648", "u0627", "u0644", "u062A", "u0642", "u0627", "u0631", "u064A", "u0631", ".">>,
     tags |-> <<<<"A", "c", "c", "o", "u", "n", "t", "i", "n", "g">>, <<"E", "x", "c", "e", "l">>>>,
     isActive |-> TRUE
  ]

\* sample = [ {...}, {...}, {...} ]
sample == <<Sample1, Sample2, Sample3>>

(* ------------------------------ strings -------------------------------- *)

Whitespace == {" ", "\t", "\n", "\r"}

Upper == <<"A", "B", "C", "D", "E", "F", "G", "H", "I", "J", "K", "L", "M",
           "N", "O", "P", "Q", "R", "S", "T", "U", "V", "W", "X", "Y", "Z">>

LowerOf == <<"a", "b", "c", "d", "e", "f", "g", "h", "i", "j", "k", "l", "m",
             "n", "o", "p", "q", "r", "s", "t", "u", "v", "w", "x", "y", "z">>

\* Case folding of one character.
Lower(c) ==
  IF \E i \in 1..26 : Upper[i] = c
  THEN LowerOf[CHOOSE i \in 1..26 : Upper[i] = c]
  ELSE c

\* Position of the first comma of s, 0 when it has none.
FirstComma(s) ==
  IF \E i \in 1..Len(s) : s[i] = ","
  THEN CHOOSE i \in 1..Len(s) : s[i] = "," /\ \A j \in 1..(i - 1) : s[j] # ","
  ELSE 0

\* Python's s.split(","): every comma separates, empty pieces are kept.
RECURSIVE Split(_)
Split(s) ==
  LET i == FirstComma(s)
  IN  IF i = 0 THEN <<s>>
      ELSE <<SubSeq(s, 1, i - 1)>> \o Split(SubSeq(s, i + 1, Len(s)))

\* Python's s.strip(): leading and trailing whitespace removed.
Strip(s) ==
  IF \A i \in 1..Len(s) : s[i] \in Whitespace THEN <<>>
  ELSE LET a == CHOOSE i \in 1..Len(s) :
                  s[i] \notin Whitespace /\ \A j \in 1..(i - 1) : s[j] \in Whitespace
           b == CHOOSE i \in 1..Len(s) :
                  s[i] \notin Whitespace /\ \A j \in (i + 1)..Len(s) : s[j] \in Whitespace
       IN  SubSeq(s, a, b)

\* tag_list = [t.strip() for t in tags.split(",") if t.strip()]
RECURSIVE StripNonEmpty(_)
StripNonEmpty(pieces) ==
  IF pieces = <<>> THEN <<>>
  ELSE LET t == Strip(Head(pieces))
       IN  (IF t # <<>> THEN <<t>> ELSE <<>>) \o StripNonEmpty(Tail(pieces))

\* TagList with the emptiness test kept and the trimming of the kept pieces
\* forgotten: [t for t in tags.split(",") if t.strip()].
RECURSIVE KeepUntrimmed(_)
KeepUntrimmed(pieces) ==
  IF pieces = <<>> THEN <<>>
  ELSE (IF Strip(Head(pieces)) # <<>> THEN <<Head(pieces)>> ELSE <<>>)
         \o KeepUntrimmed(Tail(pieces))

TagListUntrimmed(tags) == KeepUntrimmed(Split(tags))

TagList(tags) == StripNonEmpty(Split(tags))

(* ------------------------- the document store -------------------------- *)

\* One pattern character against one subject character under option "i":
\* "." stands for any character but a line break, any other character for
\* itself up to case.
PatternChar(p, c, options) ==
  IF p = "." THEN c # "\n"
  ELSE IF "i" \in Range(options) THEN Lower(p) = Lower(c)
  ELSE p = c

\* {"$regex": pattern, "$options": options}: the pattern occurs somewhere
\* in s.
RegexSearch(pattern, options, s) ==
  \E i \in 1..(Len(s) - Len(pattern) + 1) :
    \A j \in 1..Len(pattern) : PatternChar(pattern[j], s[i + j - 1], options)

\* One entry of an "$or" list: a one-field dictionary {field: {"$regex", "$options"}}.
RegexHolds(doc, cond) ==
  \A f \in DOMAIN cond :
    Has(doc, f) /\ RegexSearch(cond[f].regex, cond[f].options, doc[f])

\* Whether a stored document satisfies a filter: every top-level key holds.
Matches(doc, filter) ==
  /\ \A k \in DOMAIN filter \ {"$or", "tags"} : Has(doc, k) /\ doc[k] = filter[k]
  /\ Has(filter, "tags") =>
       Has(doc, "tags") /\ \A t \in Range(filter["tags"].all) : t \in Range(doc["tags"])
  /\ Has(filter, "$or") =>
       \E i \in 1..Len(filter["$or"]) : RegexHolds(doc, filter["$or"][i])

RECURSIVE Select(_, _)
Select(docs, filter) ==
  IF docs = <<>> THEN <<>>
  ELSE (IF Matches(Head(docs), filter) THEN <<Head(docs)>> ELSE <<>>)
         \o Select(Tail(docs), filter)

\* get_documents("employee", filter, limit): the lists the store may return,
\* the matching documents in insertion order capped at limit.  A negative
\* cap is not defined by the interface: any prefix may come back.
get_documents(docs, filter, limit) ==
  LET found == Select(docs, filter)
  IN  IF limit >= 0 THEN {Take(found, limit)}
      ELSE {Take(found, k) : k \in 0..Len(found)}

\* create_document("employee", data): the collection after a successful
\* insertion; the store assigns the identifier.
create_document(docs, data, oid) == Append(docs, With(data, "_id", oid))

\* db.list_collection_names(): a collection exists once it holds a document.
list_collection_names(docs) == IF docs = <<>> THEN <<>> ELSE <<"employee">>

(* ---------------------------- list_employees --------------------------- *)

\* LimitValid with the ceiling one too high (le=501).
LimitValidOffByOne(limit) == limit <= LimitCeiling + 1

\* limit: int = Query(default=200, le=500)
LimitValid(limit) == limit <= LimitCeiling

SearchFields ==
  <<"firstName", "lastName", "full_name", "title", "department", "email",
    "phone", "location">>

\* {field: {"$regex": q, "$options": "i"}}
RegexCond(field, q) == field :> [regex |-> q, options |-> <<"i">>]

OrClause(q) == [i \in 1..Len(SearchFields) |-> RegexCond(SearchFields[i], q)]

FilterQ(f, q) == IF Truthy(q) THEN With(f, "$or", OrClause(Val(q))) ELSE f

\* FilterDepartment with the value case-folded before it is stored.
FilterDepartmentFolded(f, department) ==
  IF Truthy(department)
  THEN With(f, "department", [i \in 1..Len(Val(department)) |-> Lower(Val(department)[i])])
  ELSE f

FilterDepartment(f, department) ==
  IF Truthy(department) THEN With(f, "department", Val(department)) ELSE f

FilterLocation(f, location) ==
  IF Truthy(location) THEN With(f, "location", Val(location)) ELSE f

\* FilterIsActive with the truthiness test the string parameters use
\* ("if isActive:"), which drops isActive=false.
FilterIsActiveTruthy(f, isActive) ==
  IF isActive # None /\ Val(isActive) THEN With(f, "isActive", Val(isActive)) ELSE f

FilterIsActive(f, isActive) ==
  IF isActive # None THEN With(f, "isActive", Val(isActive)) ELSE f

FilterTags(f, tags) ==
  IF Truthy(tags)
  THEN LET tag_list == TagList(Val(tags))
       IN  IF tag_list # <<>> THEN With(f, "tags", [all |-> tag_list]) ELSE f
  ELSE f

\* filter_query, as built from the parameters of one request.
filter_query(req) ==
  FilterTags(
    FilterIsActive(
      FilterLocation(
        FilterDepartment(FilterQ(EmptyDict, req.q), req.department),
        req.location),
      req.isActive),
    req.tags)

\* Normalize without the pop of the internal identifier.
NormalizeKeepsInternalId(d) ==
  With(d, "id", IF Has(d, "_id") THEN Numeral(d["_id"]) ELSE StrNone)

\* d["id"] = str(d.get("_id")); d.pop("_id", None)
Normalize(d) ==
  Without(With(d, "id", IF Has(d, "_id") THEN Numeral(d["_id"]) ELSE StrNone), "_id")

NormalizeAll(docs) == [i \in 1..Len(docs) |-> Normalize(docs[i])]

(* ---------------------------- seed_employees --------------------------- *)

\* One pass of "for s in sample: try: create_document(...); inserted += 1
\* except Exception: pass", from record i on.  failing is the set of
\* positions whose insertion the store refuses; st holds the collection,
\* the next identifier, the inserted count and the insertions attempted.
RECURSIVE SeedLoop(_, _, _)
SeedLoop(i, failing, st) ==
  IF i > Len(sample) THEN st
  ELSE IF i \in failing
  THEN SeedLoop(i + 1, failing,
                [st EXCEPT !.calls = Append(@, [fn |-> "create_document", arg |-> i, ok |-> FALSE])])
  ELSE SeedLoop(i + 1, failing,
                [docs     |-> create_document(st.docs, sample[i], st.oid),
                 oid      |-> st.oid + 1,
                 inserted |-> st.inserted + 1,
                 calls    |-> Append(st.calls, [fn |-> "create_document", arg |-> i, ok |-> TRUE])])

\* The loop with the try/except around the whole loop: the first refused
\* insertion ends it.
RECURSIVE SeedLoopAbort(_, _, _)
SeedLoopAbort(i, failing, st) ==
  IF i > Len(sample) THEN st
  ELSE IF i \in failing
  THEN [st EXCEPT !.calls = Append(@, [fn |-> "create_document", arg |-> i, ok |-> FALSE])]
  ELSE SeedLoopAbort(i + 1, failing,
                     [docs     |-> create_document(st.docs, sample[i], st.oid),
                      oid      |-> st.oid + 1,
                      inserted |-> st.inserted + 1,
                      calls    |-> Append(st.calls, [fn |-> "create_document", arg |-> i, ok |-> TRUE])])

SeedRunAbort(docs, oid, failing) ==
  SeedLoopAbort(1, failing, [docs |-> docs, oid |-> oid, inserted |-> 0, calls |-> <<>>])

\* The loop made idempotent: a record the collection already holds is not
\* inserted again.
RECURSIVE SeedLoopOnce(_, _, _)
SeedLoopOnce(i, failing, st) ==
  IF i > Len(sample) THEN st
  ELSE IF \E j \in 1..Len(st.docs) : Without(st.docs[j], "_id") = sample[i]
  THEN SeedLoopOnce(i + 1, failing, st)
  ELSE IF i \in failing
  THEN SeedLoopOnce(i + 1, failing,
                    [st EXCEPT !.calls = Append(@, [fn |-> "create_document", arg |-> i, ok |-> FALSE])])
  ELSE SeedLoopOnce(i + 1, failing,
                    [docs     |-> create_document(st.docs, sample[i], st.oid),
                     oid      |-> st.oid + 1,
                     inserted |-> st.inserted + 1,
                     calls    |-> Append(st.calls, [fn |-> "create_document", arg |-> i, ok |-> TRUE])])

SeedRunOnce(docs, oid, failing) ==
  SeedLoopOnce(1, failing, [docs |-> docs, oid |-> oid, inserted |-> 0, calls |-> <<>>])

\* The body of seed_employees once the store handle is known to exist.
SeedRun(docs, oid, failing) ==
  SeedLoop(1, failing, [docs |-> docs, oid |-> oid, inserted |-> 0, calls |-> <<>>])

(* ------------------------------- inputs -------------------------------- *)

Str_hr == <<"h", "r">>

Str_HR == <<"H", "R">>

Str_hDot == <<"h", ".">>

Str_BabEzzouar == <<"B", "a", "b", " ", "E", "z", "z", "o", "u", "a", "r">>

Str_Linux == <<"L", "i", "n", "u", "x">>

Str_DevOps == <<"D", "e", "v", "O", "p", "s">>

Str_a == <<"a">>

Str_b == <<"b">>

\* Documents put into the collection directly, before the service runs.
\* The store enforces no schema: any field but the identifier may be absent.
Direct1 ==
  [department |-> Str_hr, location |-> Str_BabEzzouar, tags |-> <<Str_a>>,
   isActive |-> FALSE]

Direct2 == [tags |-> <<Str_Linux>>]

Direct3 ==
  [firstName |-> <<"H", "r", "a">>, department |-> Str_HR,
   tags |-> <<Str_b, Str_a>>, isActive |-> TRUE]

Direct4 == EmptyDict

Direct5 ==
  [department |-> Str_HR, location |-> Str_BabEzzouar,
   tags |-> <<Str_DevOps, Str_Linux>>, isActive |-> FALSE]

Stored(ds) == [i \in 1..Len(ds) |-> With(ds[i], "_id", i)]

InitialStore == Stored(<<Direct1, Direct2, Direct3, Direct4, Direct5>>)

TagChars == {",", " ", "a", "b"}

StringsUpTo(n) == UNION {[1..k -> TagChars] : k \in 0..n}

Request(q, department, location, isActive, tags, limit) ==
  [q |-> q, department |-> department, location |-> location,
   isActive |-> isActive, tags |-> tags, limit |-> limit]

NoRequest == Request(None, None, None, None, None, DefaultLimit)

QValues == {None, Some(Str_hr)}

DepartmentValues == {None, Some(<<>>), Some(Str_HR), Some(Str_hr)}

LocationValues == {None, Some(<<>>), Some(Str_BabEzzouar)}

IsActiveValues == {None, Some(TRUE), Some(FALSE)}

TagsValues == {None, Some(<<" ">> \o Str_DevOps \o <<" ", ",", ",">> \o Str_Linux)}

Limits == {-1, 0, 1, 2, DefaultLimit, LimitCeiling, LimitCeiling + 1}

\* The requests tried: every combination of the filter parameters, every
\* short tags string, an empty and an unescaped pattern, and every limit.
Requests ==
  {Request(q, d, l, a, t, DefaultLimit) :
     q \in QValues, d \in DepartmentValues, l \in LocationValues,
     a \in IsActiveValues, t \in TagsValues}
  \cup {Request(None, None, None, None, Some(t), DefaultLimit) : t \in StringsUpTo(MaxTagsLen)}
  \cup {Request(q, d, None, None, None, DefaultLimit) :
          q \in {Some(<<>>), Some(Str_hDot)}, d \in DepartmentValues}
  \cup {Request(q, None, None, a, None, n) :
          q \in {None, Some(Str_hr)}, a \in {None, Some(FALSE)}, n \in Limits}

(* ------------------------------- state --------------------------------- *)

VARIABLES
  db,          \* the store handle of the database module: None or Some(name)
  employee,    \* the documents of collection "employee", in insertion order
  nextOid,     \* the identifier the store assigns next
  call,        \* the request being answered: [op, req], op "idle" between requests
  resp,        \* its response: [status, body]
  calls,       \* the store operations the handler performed for it
  employee0,   \* history: the collection as it was at start
  seeded,      \* history: seed calls that reached the store
  refused      \* history: insertions the store refused

vars == <<db, employee, nextOid, call, resp, calls, employee0, seeded, refused>>

NoResponse == [status |-> 0, body |-> EmptyDict]

Init ==
  /\ db \in {None, Some("annuaire")}
  /\ employee = (IF db = None THEN <<>> ELSE InitialStore)
  /\ nextOid = Len(employee) + 1
  /\ call = [op |-> "idle", req |-> NoRequest]
  /\ resp = NoResponse
  /\ calls = <<>>
  /\ employee0 = employee
  /\ seeded = 0
  /\ refused = 0

\* DbConfigured with the test of the handle left out.
DbConfiguredAlways(handle) == TRUE

\* "if db is None: raise HTTPException(...)" guards both store handlers.
DbConfigured(handle) == handle # None

Error(status, detail) == [status |-> status, body |-> [detail |-> detail]]

\* GET /api/employees
list_employees ==
  \E req \in Requests :
    /\ call.op = "idle"
    /\ call' = [op |-> "list", req |-> req]
    /\ UNCHANGED <<db, employee, nextOid, employee0, seeded, refused>>
    /\ IF ~LimitValid(req.limit)
       THEN /\ resp' = Error(HTTP_UNPROCESSABLE, "limit")
            /\ calls' = <<>>
       ELSE IF ~DbConfigured(db)
       THEN /\ resp' = Error(HTTP_SERVER_ERROR, "Database not configured")
            /\ calls' = <<>>
       ELSE LET f == filter_query(req)
            IN  /\ calls' = <<[fn |-> "get_documents", arg |-> f, limit |-> req.limit]>>
                /\ \/ \E docs \in get_documents(employee, f, req.limit) :
                        resp' = [status |-> HTTP_OK,
                                 body |-> [items |-> NormalizeAll(docs), count |-> Len(docs)]]
                   \/ resp' = Error(HTTP_SERVER_ERROR, "store")

\* POST /api/employees/seed
seed_employees ==
  /\ call.op = "idle"
  /\ call' = [op |-> "seed", req |-> NoRequest]
  /\ UNCHANGED <<db, employee0>>
  /\ IF ~DbConfigured(db)
     THEN /\ resp' = Error(HTTP_SERVER_ERROR, "Database not configured")
          /\ calls' = <<>>
          /\ UNCHANGED <<employee, nextOid, seeded, refused>>
     ELSE /\ seeded < MaxSeeds
          /\ \E failing \in SUBSET (1..Len(sample)) :
               /\ refused + Cardinality(failing) <= MaxRefused
               /\ LET st == SeedRun(employee, nextOid, failing)
                  IN  /\ employee' = st.docs
                      /\ nextOid' = st.oid
                      /\ calls' = st.calls
                      /\ resp' = [status |-> HTTP_OK, body |-> [inserted |-> st.inserted]]
                      /\ seeded' = seeded + 1
                      /\ refused' = refused + Cardinality(failing)

\* GET /test
test_database ==
  \E url \in BOOLEAN, name \in BOOLEAN, listing \in BOOLEAN :
    /\ call.op = "idle"
    /\ call' = [op |-> "test", req |-> NoRequest]
    /\ UNCHANGED <<db, employee, nextOid, employee0, seeded, refused>>
    /\ calls' = IF db # None THEN <<[fn |-> "list_collection_names", ok |-> listing]>> ELSE <<>>
    /\ resp' =
         [status |-> HTTP_OK,
          body |->
            [backend |-> "Running",
             database |->
               IF db = None THEN "Available but not initialized"
               ELSE IF listing THEN "Connected & Working"
               ELSE "Connected but Error",
             database_url |-> IF url THEN "Set" ELSE "Not Set",
             database_name |-> IF name THEN "Set" ELSE "Not Set",
             connection_status |-> IF db # None THEN "Connected" ELSE "Not Connected",
             collections |->
               IF db # None /\ listing
               THEN Take(list_collection_names(employee), CollectionsShown)
               ELSE <<>>]]

\* The response is sent; nothing of the request outlives it.
Return ==
  /\ call.op # "idle"
  /\ call' = [op |-> "idle", req |-> NoRequest]
  /\ resp' = NoResponse
  /\ calls' = <<>>
  /\ UNCHANGED <<db, employee, nextOid, employee0, seeded, refused>>

Next == list_employees \/ seed_employees \/ test_database \/ Return

Spec == Init /\ [][Next]_vars


(* ----------------------------- properties ------------------------------ *)

Listed == call.op = "list" /\ resp.status = HTTP_OK

\* The filter handed to the store by the request being answered.
Queried == call.op = "list" /\ calls # <<>>

TheFilter == calls[1].arg

Items == resp.body.items

\* C1: a list call that validation accepts returns no more items, and reports
\* no greater count, than the requested limit, and never more than 500.
C1_WithinLimit ==
  Listed =>
    /\ Len(Items) <= call.req.limit
    /\ resp.body.count <= call.req.limit
    /\ Len(Items) <= 500
    /\ resp.body.count <= 500

\* C2: with the store available, a seed call attempts the insertion of every
\* sample record in order whatever failed before, answers normally, and
\* reports exactly the number of insertions that succeeded.
C2_SeedAttemptsAll ==
  (call.op = "seed" /\ db # None) =>
    /\ resp.status = HTTP_OK
    /\ Len(calls) = Len(sample)
    /\ \A i \in 1..Len(calls) : calls[i].fn = "create_document" /\ calls[i].arg = i
    /\ resp.body.inserted = Cardinality({i \in 1..Len(calls) : calls[i].ok})
    /\ resp.body.inserted \in 0..Len(sample)

C2_Witness ==
  /\ call.op = "seed" /\ db # None
  /\ Len(calls) = 3
  /\ ~calls[1].ok /\ calls[2].ok /\ ~calls[3].ok
  /\ resp.body.inserted = 1

\* C3: with no store handle, a list call (one that passed validation) and a
\* seed call end in the service error without any store operation, which no
\* successful answer with zero items or zero inserted can be taken for; the
\* /test diagnostic answers normally and its body reports the unavailability.
C3_Unavailable ==
  db = None =>
    /\ (call.op = "seed" \/ (call.op = "list" /\ call.req.limit <= 500)) =>
         /\ resp.status = HTTP_SERVER_ERROR
         /\ resp.status # HTTP_OK
         /\ ~Has(resp.body, "items") /\ ~Has(resp.body, "count")
         /\ ~Has(resp.body, "inserted")
         /\ calls = <<>>
    /\ call.op = "test" =>
         /\ resp.status = HTTP_OK
         /\ resp.body.database = "Available but not initialized"
         /\ resp.body.connection_status = "Not Connected"
         /\ resp.body.collections = <<>>
         /\ calls = <<>>
    /\ employee = employee0

C3_Witness ==
  /\ db = None
  /\ call.op = "list" /\ call.req.limit = 0 /\ call.req.q # None
  /\ resp.status = HTTP_SERVER_ERROR

\* C4: a list request whose limit exceeds 500 is refused with a client error
\* before any store operation, whatever else it asks and whether or not the
\* store is available.
C4_LimitRejected ==
  (call.op = "list" /\ call.req.limit > 500) =>
    /\ resp.status \in 400..499
    /\ calls = <<>>
    /\ ~Has(resp.body, "items")

C4_Witness ==
  /\ call.op = "list" /\ call.req.limit = 501
  /\ db # None /\ employee # <<>>
  /\ call.req.q # None /\ call.req.isActive # None
  /\ resp.status = HTTP_UNPROCESSABLE

\* The pieces of a comma-separated string, by position: a piece starts at the
\* string's start or after a comma and runs to the next comma; what is kept
\* of it runs from its first to its last non-blank character.
PieceStarts(s) == {i \in 1..(Len(s) + 1) : i = 1 \/ s[i - 1] = ","}

PieceEnd(s, a) ==
  CHOOSE b \in (a - 1)..Len(s) :
    /\ \A j \in a..b : s[j] # ","
    /\ b = Len(s) \/ s[b + 1] = ","

Ink(s, a) == {j \in a..PieceEnd(s, a) : s[j] \notin {" ", "\t", "\n", "\r"}}

InkedStarts(s) == {a \in PieceStarts(s) : Ink(s, a) # {}}

Least(S) == CHOOSE x \in S : \A y \in S : x <= y

Greatest(S) == CHOOSE x \in S : \A y \in S : y <= x

WantedTags(s) ==
  [k \in 1..Cardinality(InkedStarts(s)) |->
     LET a == CHOOSE x \in InkedStarts(s) :
                Cardinality({y \in InkedStarts(s) : y < x}) = k - 1
     IN  SubSeq(s, Least(Ink(s, a)), Greatest(Ink(s, a)))]

HasAllTags(d, want) == Has(d, "tags") /\ \A t \in Range(want) : t \in Range(d["tags"])

\* C5: the tags string is split on commas, its pieces trimmed and the empty
\* ones dropped; if a piece remains the filter demands all of them of a
\* record's tags, in any order, and a record holding only some is left out;
\* if none remains the filter has no tags clause.
C5_TagsClause ==
  (Queried /\ call.req.tags # None) =>
    LET want == WantedTags(Val(call.req.tags))
    IN  /\ want = <<>> => ~Has(TheFilter, "tags")
        /\ want # <<>> =>
             /\ Has(TheFilter, "tags")
             /\ TheFilter["tags"] = [all |-> want]
             /\ Listed => \A i \in 1..Len(Items) : HasAllTags(Items[i], want)
             /\ (Listed /\ DOMAIN TheFilter = {"tags"} /\ call.req.limit >= Len(employee)) =>
                  Len(Items) = Cardinality({i \in 1..Len(employee) : HasAllTags(employee[i], want)})

C5_Witness ==
  /\ Listed
  /\ call.req.tags = Some(<<" ">> \o Str_DevOps \o <<" ", ",", ",">> \o Str_Linux)
  /\ DOMAIN TheFilter = {"tags"}
  /\ Len(Items) = 1
  /\ \E i \in 1..Len(employee) : Has(employee[i], "tags") /\ employee[i]["tags"] = <<Str_Linux>>

DepartmentIs(d, v) == Has(d, "department") /\ d["department"] = v

\* C6 as stated: whenever department is present in a list request, whatever
\* its value, the filter holds an exact equality clause on department and
\* every returned record has exactly that department.
C6_DepartmentPresent ==
  (Queried /\ call.req.department # None) =>
    /\ Has(TheFilter, "department")
    /\ TheFilter["department"] = Val(call.req.department)
    /\ Listed => \A i \in 1..Len(Items) : DepartmentIs(Items[i], Val(call.req.department))

\* C6, amended: whenever department is present with a non-empty value, the
\* filter holds an exact, case-sensitive equality clause on department, every
\* returned record has exactly that department and records with another or no
\* department are left out; an empty department value adds no clause.
C6_DepartmentNonEmpty ==
  Queried =>
    /\ (call.req.department # None /\ Val(call.req.department) # <<>>) =>
         /\ Has(TheFilter, "department")
         /\ TheFilter["department"] = Val(call.req.department)
         /\ Listed => \A i \in 1..Len(Items) : DepartmentIs(Items[i], Val(call.req.department))
         /\ (Listed /\ DOMAIN TheFilter = {"department"} /\ call.req.limit >= Len(employee)) =>
              Len(Items) =
                Cardinality({i \in 1..Len(employee) :
                               DepartmentIs(employee[i], Val(call.req.department))})
    /\ (call.req.department = None \/ Val(call.req.department) = <<>>) =>
         ~Has(TheFilter, "department")

C6_Witness ==
  /\ Listed
  /\ call.req.department = Some(Str_HR)
  /\ DOMAIN TheFilter = {"department"}
  /\ Len(Items) = 2
  /\ \E i \in 1..Len(employee) : DepartmentIs(employee[i], Str_hr)
  /\ \E i \in 1..Len(employee) : ~Has(employee[i], "department")

EightFields ==
  <<"firstName", "lastName", "full_name", "title", "department", "email",
    "phone", "location">>

NonEmpty(o) == o # None /\ Val(o) # <<>>

\* The q clause as a filter states it: one entry per field, in order, each a
\* case-insensitive pattern q on that field alone.
IsOrOverEightFields(clause, q) ==
  /\ Len(clause) = 8
  /\ \A i \in 1..8 :
       /\ DOMAIN clause[i] = {EightFields[i]}
       /\ clause[i][EightFields[i]] = [regex |-> q, options |-> <<"i">>]

FieldIs(d, k, o) == Has(d, k) /\ d[k] = Val(o)

AnyFieldMatches(d, q) ==
  \E i \in 1..8 : Has(d, EightFields[i]) /\ RegexSearch(q, <<"i">>, d[EightFields[i]])

\* What a record must satisfy to be selected for a request: every clause of
\* a parameter that has one (want: the pieces of the tags parameter).
Selected(d, req, want) ==
  /\ NonEmpty(req.department) => FieldIs(d, "department", req.department)
  /\ NonEmpty(req.location) => FieldIs(d, "location", req.location)
  /\ req.isActive # None => FieldIs(d, "isActive", req.isActive)
  /\ want # <<>> => HasAllTags(d, want)
  /\ NonEmpty(req.q) => AnyFieldMatches(d, Val(req.q))

ConjunctionOfClauses(req) ==
  LET want == IF req.tags = None THEN <<>> ELSE WantedTags(Val(req.tags))
  IN  /\ DOMAIN TheFilter \subseteq {"$or", "department", "location", "isActive", "tags"}
      /\ Has(TheFilter, "$or") => IsOrOverEightFields(TheFilter["$or"], Val(req.q))
      /\ Has(TheFilter, "isActive") <=> req.isActive # None
      /\ Has(TheFilter, "isActive") => TheFilter["isActive"] = Val(req.isActive)
      /\ Has(TheFilter, "tags") <=> want # <<>>
      /\ Listed =>
           /\ \A i \in 1..Len(Items) : Selected(Items[i], req, want)
           /\ call.req.limit >= Len(employee) =>
                Len(Items) =
                  Cardinality({i \in 1..Len(employee) : Selected(employee[i], req, want)})

\* C7 as stated: the filter is the conjunction of one clause per supplied
\* parameter (q taken as supplied when non-empty, tags when a piece remains):
\* the q clause one disjunction over exactly the eight fields, ANDed with the
\* department, location, isActive and tags clauses.
C7_ClausePerSupplied ==
  Queried =>
    /\ ConjunctionOfClauses(call.req)
    /\ Has(TheFilter, "$or") <=> NonEmpty(call.req.q)
    /\ Has(TheFilter, "department") <=> call.req.department # None
    /\ Has(TheFilter, "location") <=> call.req.location # None

\* C7, amended: the filter is the conjunction of one clause per supplied
\* parameter whose value is not empty (an empty q, department or location and
\* a tags string without a non-blank piece add none; isActive adds one
\* whenever supplied, false included): the q clause is one disjunction over
\* exactly the eight fields, ANDed with the others, so a record that matches
\* q but fails another clause is not selected.
C7_ClausePerNonEmpty ==
  Queried =>
    /\ ConjunctionOfClauses(call.req)
    /\ Has(TheFilter, "$or") <=> NonEmpty(call.req.q)
    /\ Has(TheFilter, "department") <=> NonEmpty(call.req.department)
    /\ Has(TheFilter, "location") <=> NonEmpty(call.req.location)

C7_Witness ==
  /\ Listed
  /\ call.req.q = Some(Str_hr)
  /\ call.req.department = Some(Str_HR)
  /\ call.req.isActive = Some(FALSE)
  /\ DOMAIN TheFilter = {"$or", "department", "isActive"}
  /\ Len(Items) = 1
  /\ \E i \in 1..Len(employee) :
       /\ AnyFieldMatches(employee[i], Str_hr)
       /\ FieldIs(employee[i], "department", Some(Str_HR))
       /\ FieldIs(employee[i], "isActive", Some(TRUE))

DigitValue(c) == CHOOSE n \in 0..9 : <<"0", "1", "2", "3", "4", "5", "6", "7", "8", "9">>[n + 1] = c

IsNumeral(s) ==
  /\ s # <<>>
  /\ \A i \in 1..Len(s) : s[i] \in {"0", "1", "2", "3", "4", "5", "6", "7", "8", "9"}

RECURSIVE NumeralValue(_)
NumeralValue(s) ==
  IF s = <<>> THEN 0
  ELSE 10 * NumeralValue(SubSeq(s, 1, Len(s) - 1)) + DigitValue(s[Len(s)])

\* item is the outward form of stored document d.
OutwardFormOf(item, d) ==
  /\ Has(item, "id")
  /\ IsNumeral(item["id"]) /\ NumeralValue(item["id"]) = d["_id"]
  /\ ~Has(item, "_id")
  /\ DOMAIN item = (DOMAIN d \ {"_id"}) \cup {"id"}
  /\ \A k \in DOMAIN d \ {"_id"} : item[k] = d[k]

\* C8: every returned record has a field id, a non-empty string that is the
\* string form of the store-assigned identifier, has no _id field, and has
\* every other field of the stored document unchanged, documents that lack
\* optional fields included.
C8_OutwardForm ==
  Listed =>
    \A i \in 1..Len(Items) :
      \E j \in 1..Len(employee) : OutwardFormOf(Items[i], employee[j])

C8_Witness ==
  /\ Listed
  /\ \E i \in 1..Len(Items) : DOMAIN Items[i] = {"id"}
  /\ \E i \in 1..Len(Items) : Len(Items[i]["id"]) = 2 /\ Has(Items[i], "bio")

\* C9: normalizing an already-normalized record (one with an id field and no
\* internal identifier field) yields the same record.
C9_Idempotent ==
  Listed =>
    \A i \in 1..Len(Items) :
      (Has(Items[i], "id") /\ ~Has(Items[i], "_id")) => Normalize(Items[i]) = Items[i]

WithoutIds(docs) == [i \in 1..Len(docs) |-> Without(docs[i], "_id")]

RECURSIVE Copies(_, _)
Copies(k, s) == IF k = 0 THEN <<>> ELSE Copies(k - 1, s) \o s

\* C10: seeding is not idempotent: after k seed calls with the store
\* available and no insertion refused, the collection holds what it held
\* before followed by k full copies of the sample set, and each call reports
\* inserted = 3; no call removes, replaces or deduplicates earlier records.
C10_SeedAppends ==
  db # None =>
    /\ Len(employee) = Len(employee0) + 3 * seeded - refused
    /\ SubSeq(employee, 1, Len(employee0)) = employee0
    /\ \A i, j \in 1..Len(employee) : i # j => employee[i]["_id"] # employee[j]["_id"]
    /\ refused = 0 =>
         /\ WithoutIds(employee) = WithoutIds(employee0) \o Copies(seeded, sample)
         /\ call.op = "seed" => resp.body = [inserted |-> 3]

C10_Witness ==
  /\ db # None /\ employee0 # <<>>
  /\ call.op = "seed"
  /\ seeded = 2 /\ refused = 0
  /\ Len(employee) = Len(employee0) + 6
====
